---- MODULE Spec2Model ----
(***************************************************************************)
(* Realtime room coordination of the Quiz server: the WebSocket handlers   *)
(* of registerRoutes (connectedPlayers registry, broadcastToRoom,          *)
(* broadcastToLobby) over the MemStorage / FileStorage room repository.    *)
(*                                                                         *)
(* The handlers are written as operators over a record                     *)
(*   [rooms, parts, conn, ready, out]                                      *)
(* where out collects the messages the handler sends, so that a handler    *)
(* can be run as one step (Spec: every event handled to completion) or cut *)
(* at its awaits (SpecAsync: other events may be dispatched while a        *)
(* handler is suspended at a repository await).                            *)
(*                                                                         *)
(* SpecSolo is the solo-result side of the same storage: createUser,       *)
(* addSoloResult, a restart that reads the data file back, and             *)
(* getSoloLeaderboard.                                                     *)
(***************************************************************************)
EXTENDS Integers, Sequences, FiniteSets, Bags, TLC

VARIABLES
    gameRooms,         \* MemStorage.gameRooms: sequence of rooms, id = index
    gameParticipants,  \* MemStorage.gameParticipants: bag of [roomId, userId] rows
    connectedPlayers,  \* Map userId -> {ws, userId, roomId}, in insertion order
    readyState,        \* ws.readyState of every transport
    pending,           \* message handlers suspended at an await (bag)
    stale,             \* player objects held by a suspended handler, no longer in the Map
    users,             \* MemStorage.users: the ids of the stored users
    soloResults,       \* MemStorage.soloResults: the results, in insertion order
    leaderboard,       \* the last outcome of getSoloLeaderboard
    totalScore,        \* MemStorage.users: totalScore of every stored user
    scoreRequests,     \* update-score requests suspended at an await (bag)
    opentdbToken,      \* client: whether a session token is held
    inFlight,          \* client: Map key -> promise (index into promises)
    cache,             \* client: Map key -> "fresh" or "expired" (age against CACHE_TTL)
    promises           \* client: the promises fetchTriviaQuestions created

vars == <<gameRooms, gameParticipants, connectedPlayers, readyState, pending, stale,
          users, soloResults, leaderboard,
          totalScore, scoreRequests, opentdbToken, inFlight, cache, promises>>
soloVars == <<users, soloResults, leaderboard>>
roomVars == <<gameRooms, gameParticipants, connectedPlayers, readyState, pending, stale>>
scoreVars == <<totalScore, scoreRequests>>
clientVars == <<opentdbToken, inFlight, cache, promises>>

(***************************************************************************)
(* Bounds                                                                  *)
(***************************************************************************)
NumWs == 2          \* transports that ever connect
NumUsers == 2       \* distinct userId strings clients send
MaxRooms == 1       \* rooms ever created
MaxRows == 2        \* participant rows alive at once
MaxInFlight == 1    \* handlers suspended at once (SpecAsync)
MaxResults == 3     \* solo results ever saved
MaxTime == 2        \* instants the clock shows while results are saved

WS == 1..NumWs
Users == 1..NumUsers

\* null (player.roomId of a lobby connection)
Null == 0
\* a payload userId that is missing or not a string
NoUserId == 0
\* a roomId string that names no room of the repository
GhostRoom == MaxRooms + 1

UserInputs == Users \cup {NoUserId}

(***************************************************************************)
(* create_room: maxPlayers clamp                                           *)
(***************************************************************************)
JsUndefined == [t |-> "undefined", n |-> 0]
JsNum(k) == [t |-> "number", n |-> k]
JsText == [t |-> "string", n |-> 0]      \* a non-numeric string

MaxPlayersInputs == {JsNum(1), JsNum(3)}

Min(a, b) == IF a < b THEN a ELSE b
Max(a, b) == IF a > b THEN a ELSE b

\* Number(v): NaN for undefined and for non-numeric text
ToNumber(v) == IF v.t = "number" THEN [nan |-> FALSE, n |-> v.n]
               ELSE [nan |-> TRUE, n |-> 0]

\* x || d on a number: NaN and 0 are falsy
OrDefault(x, d) == IF x.nan \/ x.n = 0 THEN d ELSE x.n

DefaultMaxPlayers == 8
MinPlayers == 2
MaxPlayersCap == 16

\* the clamp without its Math.max(2, ...)
ClampWithoutFloor(v) ==
    Min(OrDefault(ToNumber(v), DefaultMaxPlayers), MaxPlayersCap)
ClampMaxPlayers(v) ==
    Max(MinPlayers, Min(OrDefault(ToNumber(v), DefaultMaxPlayers), MaxPlayersCap))

(***************************************************************************)
(* MemStorage                                                              *)
(***************************************************************************)
Row(rid, uid) == [roomId |-> rid, userId |-> uid]

\* createdAt is the Date the storage built (new Date()), or, once loadData
\* has read the data file back, the ISO string JSON.stringify wrote for it
DateOf(t) == [time |-> t, isDate |-> TRUE]
JsonRoundTrip(createdAt) == [createdAt EXCEPT !.isDate = FALSE]

RoomExists(rooms, rid) == rid \in 1..Len(rooms)

\* createGameRoom: the new room is stored with currentPlayers 1
\* (createdAt is new Date(): the creation time of the previous room, or later)
CreateGameRoom(s, hostId, maxPlayers, tick) ==
    [s EXCEPT !.rooms = Append(@,
        [id |-> Len(s.rooms) + 1,
         hostId |-> hostId,
         status |-> "waiting",
         maxPlayers |-> IF maxPlayers = 0 THEN DefaultMaxPlayers ELSE maxPlayers,
         currentPlayers |-> 1,
         createdAt |-> DateOf(IF Len(s.rooms) = 0 THEN 0
                              ELSE s.rooms[Len(s.rooms)].createdAt.time + tick)])]

\* addParticipant: inserts a row under a fresh id, then bumps the counter of
\* the room when the room exists
AddParticipant(s, rid, uid) ==
    LET withRow == [s EXCEPT !.parts = @ (+) SetToBag({Row(rid, uid)})]
    IN  IF RoomExists(s.rooms, rid)
        THEN [withRow EXCEPT !.rooms[rid].currentPlayers = @ + 1]
        ELSE withRow

\* removeParticipant: removes the first row of (roomId, userId), and only
\* then lowers the counter, floored at 0
\* removeParticipant without the participantToRemove test and the Math.max floor
RemoveParticipantUnchecked(s, rid, uid) ==
    LET without == [s EXCEPT !.parts = @ (-) SetToBag({Row(rid, uid)})]
    IN  IF RoomExists(s.rooms, rid)
        THEN [without EXCEPT !.rooms[rid].currentPlayers = @ - 1]
        ELSE without
RemoveParticipant(s, rid, uid) ==
    IF BagIn(Row(rid, uid), s.parts)
    THEN LET without == [s EXCEPT !.parts = @ (-) SetToBag({Row(rid, uid)})]
         IN  IF RoomExists(s.rooms, rid)
             THEN [without EXCEPT !.rooms[rid].currentPlayers = Max(0, @ - 1)]
             ELSE without
    ELSE s

\* the number of rows of a room
RowsOf(parts, rid) ==
    BagCardinality([x \in {y \in BagToSet(parts) : y.roomId = rid} |-> parts[x]])

JoinGameRoom(s, rid, uid) == AddParticipant(s, rid, uid)
LeaveGameRoom(s, rid, uid) == RemoveParticipant(s, rid, uid)

\* getGameRoom: the stored room, or undefined
Undefined == [id |-> Null, hostId |-> NoUserId, status |-> "undefined",
              maxPlayers |-> 0, currentPlayers |-> 0, createdAt |-> DateOf(0)]
GetGameRoom(s, rid) == IF RoomExists(s.rooms, rid) THEN s.rooms[rid] ELSE Undefined

\* Array.prototype.sort with (a, b) => b.createdAt.getTime() - a.createdAt.getTime(): a stable
\* sort, newest first, over room ids
RECURSIVE InsertNewestFirst(_, _, _)
InsertNewestFirst(rooms, sorted, rid) ==
    IF sorted = <<>> THEN <<rid>>
    ELSE IF rooms[rid].createdAt.time > rooms[Head(sorted)].createdAt.time
         THEN <<rid>> \o sorted
         ELSE <<Head(sorted)>> \o InsertNewestFirst(rooms, Tail(sorted), rid)

RECURSIVE SortNewestFirst(_, _)
SortNewestFirst(rooms, ids) ==
    IF ids = <<>> THEN <<>>
    ELSE LET n == Len(ids)
         IN  InsertNewestFirst(rooms, SortNewestFirst(rooms, SubSeq(ids, 1, n - 1)), ids[n])

\* the rooms getGameRooms filters
WaitingRooms(s) ==
    SelectSeq([i \in 1..Len(s.rooms) |-> i], LAMBDA i : s.rooms[i].status = "waiting")

\* the comparator calls createdAt.getTime() on both rooms: a TypeError when
\* one is a string; with two or more rooms every room is compared at least
\* once, with one room or none the comparator is not called
GetGameRoomsThrows(s) ==
    LET ids == WaitingRooms(s)
    IN  /\ Len(ids) >= 2
        /\ \E i \in 1..Len(ids) : ~s.rooms[ids[i]].createdAt.isDate

\* FileStorage.loadData for the rooms: new Map(JSON.parse(...).gameRooms)
LoadRooms(rooms) ==
    [i \in 1..Len(rooms) |-> [rooms[i] EXCEPT !.createdAt = JsonRoundTrip(@)]]

\* getGameRooms: the ids of the waiting rooms, newest first
GetGameRooms(s) ==
    SortNewestFirst(s.rooms,
        SelectSeq([i \in 1..Len(s.rooms) |-> i], LAMBDA i : s.rooms[i].status = "waiting"))

(***************************************************************************)
(* Solo results and the leaderboard                                        *)
(***************************************************************************)
\* a userId no user was ever created with
GhostUser == NumUsers + 1
Scores == {1, 2}
DefaultLimit == 50
Limits == {1, DefaultLimit}
Offsets == {0, 1}

\* addSoloResult
AddSoloResult(results, uid, score, t) ==
    Append(results, [userId |-> uid, score |-> score, createdAt |-> DateOf(t)])

\* FileStorage.loadData: new Map(JSON.parse(...).soloResults), no reviver
LoadData(results) ==
    [i \in 1..Len(results) |->
        [results[i] EXCEPT !.createdAt = JsonRoundTrip(@)]]

\* a < b on two createdAt values: two Dates compare as numbers, two ISO
\* strings as strings (the same order), a Date with a string as a number
\* with NaN, which is false
CreatedBefore(a, b) == a.isDate = b.isDate /\ a.time < b.time

\* the forEach that fills userBestScores (a Map: a user keeps the position
\* of its first result)
RECURSIVE UserBestScores(_, _, _)
UserBestScores(results, userSet, best) ==
    IF results = <<>> THEN best
    ELSE LET result == Head(results)
             found == {k \in 1..Len(best) : best[k].userId = result.userId}
             next == IF result.userId \notin userSet THEN best
                     ELSE IF found = {} THEN Append(best, result)
                     ELSE LET k == CHOOSE x \in found : TRUE
                          IN  IF \/ result.score > best[k].score
                                 \/ /\ result.score = best[k].score
                                    /\ CreatedBefore(result.createdAt, best[k].createdAt)
                              THEN [best EXCEPT ![k] = result]
                              ELSE best
         IN  UserBestScores(Tail(results), userSet, next)

\* the comparator: b.score - a.score, or for equal scores
\* a.timestamp.getTime() - b.timestamp.getTime(), a TypeError when a
\* timestamp is a string
ComparatorThrows(a, b) ==
    a.score = b.score /\ (~a.timestamp.isDate \/ ~b.timestamp.isDate)
RanksBefore(a, b) ==
    \/ a.score > b.score
    \/ a.score = b.score /\ a.timestamp.time < b.timestamp.time

\* Array.prototype.sort compares every row at least once with a row of the
\* same score when there is one (nothing else decides their order), so the
\* sort throws exactly when the comparator throws on some pair of rows
SortThrows(rows) ==
    \E i, j \in 1..Len(rows) : i # j /\ ComparatorThrows(rows[i], rows[j])

\* the stable sort by that comparator
RECURSIVE InsertByRank(_, _)
InsertByRank(sorted, row) ==
    IF sorted = <<>> THEN <<row>>
    ELSE IF RanksBefore(row, Head(sorted))
         THEN <<row>> \o sorted
         ELSE <<Head(sorted)>> \o InsertByRank(Tail(sorted), row)

RECURSIVE SortLeaderboard(_)
SortLeaderboard(rows) ==
    IF rows = <<>> THEN <<>>
    ELSE LET n == Len(rows)
         IN  InsertByRank(SortLeaderboard(SubSeq(rows, 1, n - 1)), rows[n])

\* Array.prototype.slice(from, to)
Slice(seq, from, to) == SubSeq(seq, from + 1, Min(to, Len(seq)))

\* getSoloLeaderboard(limit, offset): the rows returned, or threw when the
\* promise is rejected
Returned(rows) == [threw |-> FALSE, rows |-> rows]
Threw == [threw |-> TRUE, rows |-> <<>>]
GetSoloLeaderboard(userSet, results, limit, offset) ==
    LET best == UserBestScores(results, userSet, <<>>)
        rows == [i \in 1..Len(best) |->
                    [id |-> best[i].userId, score |-> best[i].score,
                     timestamp |-> best[i].createdAt]]
    IN  IF SortThrows(rows) THEN Threw
        ELSE Returned(Slice(SortLeaderboard(rows), offset, offset + limit))

(***************************************************************************)
(* connectedPlayers                                                        *)
(***************************************************************************)
Player(w, uid, rid) == [ws |-> w, userId |-> uid, roomId |-> rid]

\* index of the entry under key uid, 0 when there is none
ConnIndex(conn, uid) ==
    IF \E i \in 1..Len(conn) : conn[i].userId = uid
    THEN CHOOSE i \in 1..Len(conn) : conn[i].userId = uid
    ELSE 0

ConnHas(conn, uid) == ConnIndex(conn, uid) # 0

\* Map.set: an existing key keeps its position, a new key is appended
ConnSet(conn, uid, player) ==
    IF ConnHas(conn, uid)
    THEN [conn EXCEPT ![ConnIndex(conn, uid)] = player]
    ELSE Append(conn, player)

\* Map.delete
ConnDelete(conn, uid) ==
    LET i == ConnIndex(conn, uid)
    IN  IF i = 0 THEN conn
        ELSE [j \in 1..(Len(conn) - 1) |-> IF j < i THEN conn[j] ELSE conn[j + 1]]

\* player.roomId = rid on the entry under key uid, if (player)
SetRoomId(s, uid, rid) ==
    IF ConnHas(s.conn, uid)
    THEN [s EXCEPT !.conn[ConnIndex(s.conn, uid)].roomId = rid]
    ELSE s

(***************************************************************************)
(* Outbound messages                                                       *)
(***************************************************************************)
Msg(w, type, uid, room, text) ==
    [to |-> w, type |-> type, userId |-> uid, room |-> room, rooms |-> <<>>,
     message |-> text]

\* ws.send: delivered only while the transport is open
Send(s, w, type, uid, room, text) ==
    IF s.ready[w] = "open"
    THEN [s EXCEPT !.out = @ \cup {Msg(w, type, uid, room, text)}]
    ELSE s

SendError(s, w, text) == Send(s, w, "error", NoUserId, Undefined, text)

\* broadcastToRoom
BroadcastToRoom(s, rid, type, uid, excludeUserId) ==
    [s EXCEPT !.out = @ \cup
        {Msg(s.conn[i].ws, type, uid, Undefined, "") :
            i \in {j \in 1..Len(s.conn) :
                      /\ s.conn[j].roomId = rid
                      /\ s.conn[j].userId # excludeUserId
                      /\ s.ready[s.conn[j].ws] = "open"}}]

\* broadcastToLobby
BroadcastToLobby(s, type) ==
    [s EXCEPT !.out = @ \cup
        {Msg(s.conn[i].ws, type, NoUserId, Undefined, "") :
            i \in {j \in 1..Len(s.conn) :
                      /\ s.conn[j].roomId = Null
                      /\ s.ready[s.conn[j].ws] = "open"}}]

(***************************************************************************)
(* ws.on('message') and ws.on('close'), cut at the awaits                  *)
(***************************************************************************)

\* case 'join_lobby' (no await)
JoinLobby(s, w, uid) ==
    IF uid = NoUserId
    THEN SendError(s, w, "Invalid userId")
    ELSE Send([s EXCEPT !.conn = ConnSet(@, uid, Player(w, uid, Null))],
              w, "lobby_joined", uid, Undefined, "")

\* case 'create_room', up to await storage.createGameRoom
CreateRoomThrows(uid) == uid = NoUserId
CreateRoom1(s, w, uid, mp, tick) ==
    IF CreateRoomThrows(uid)
    THEN SendError(s, w, "Failed to create room")
    ELSE CreateGameRoom(s, uid, ClampMaxPlayers(mp), tick)

\* ... up to await storage.joinGameRoom(room.id, data.userId)
CreateRoom2(s, w, uid, rid) == JoinGameRoom(s, rid, uid)

\* ... the registry update, the room_created reply and the lobby broadcast
CreateRoom3(s, w, uid, rid) ==
    LET a == SetRoomId(s, uid, rid)
        b == Send(a, w, "room_created", NoUserId, GetGameRoom(a, rid), "")
    IN  BroadcastToLobby(b, "room_list_updated")

CreateRoom(s, w, uid, mp, tick) ==
    IF CreateRoomThrows(uid)
    THEN CreateRoom1(s, w, uid, mp, tick)
    ELSE LET rid == Len(s.rooms) + 1
         IN  CreateRoom3(CreateRoom2(CreateRoom1(s, w, uid, mp, tick), w, uid, rid),
                         w, uid, rid)

\* case 'join_room', up to await storage.joinGameRoom(data.roomId, data.userId)
\* (Null stands for a roomId that is missing or not a string)
JoinRoomThrows(uid, rid) == rid = Null \/ uid = NoUserId
JoinRoom1(s, w, uid, rid) ==
    IF JoinRoomThrows(uid, rid)
    THEN SendError(s, w, "Failed to join room")
    ELSE JoinGameRoom(s, rid, uid)

\* ... the registry update, up to await storage.getGameRoom(data.roomId)
JoinRoom2(s, w, uid, rid) == SetRoomId(s, uid, rid)

\* ... the room_joined reply and the two broadcasts
JoinRoom3(s, w, uid, rid) ==
    LET a == Send(s, w, "room_joined", NoUserId, GetGameRoom(s, rid), "")
        b == BroadcastToRoom(a, rid, "player_joined", uid, uid)
    IN  BroadcastToLobby(b, "room_list_updated")

JoinRoom(s, w, uid, rid) ==
    IF JoinRoomThrows(uid, rid)
    THEN JoinRoom1(s, w, uid, rid)
    ELSE JoinRoom3(JoinRoom2(JoinRoom1(s, w, uid, rid), w, uid, rid), w, uid, rid)

\* case 'leave_room': player?.roomId of connectedPlayers.get(data.userId)
LeaveRoomActs(s, uid) ==
    /\ ConnHas(s.conn, uid)
    /\ s.conn[ConnIndex(s.conn, uid)].roomId # Null

\* ... up to await storage.leaveGameRoom(player.roomId, data.userId)
LeaveRoom1(s, w, uid) ==
    IF LeaveRoomActs(s, uid)
    THEN LeaveGameRoom(s, s.conn[ConnIndex(s.conn, uid)].roomId, uid)
    ELSE s

\* ... the player_left broadcast to player.roomId, player.roomId = null, the
\* room_left reply and the lobby broadcast; playerRoomId is what player.roomId
\* holds now, inMap whether the player object is still the Map's entry
LeaveRoom2(s, w, uid, playerRoomId, inMap) ==
    LET a == BroadcastToRoom(s, playerRoomId, "player_left", uid, uid)
        b == IF inMap THEN SetRoomId(a, uid, Null) ELSE a
        c == Send(b, w, "room_left", NoUserId, Undefined, "")
    IN  BroadcastToLobby(c, "room_list_updated")

LeaveRoom(s, w, uid) ==
    IF LeaveRoomActs(s, uid)
    THEN LET a == LeaveRoom1(s, w, uid)
         IN  LeaveRoom2(a, w, uid, a.conn[ConnIndex(a.conn, uid)].roomId, TRUE)
    ELSE s

\* case 'get_rooms': the rooms_list reply carries the listed rooms as they are
\* when the reply is serialised
GetRooms2(s, w, ids) ==
    IF s.ready[w] = "open"
    THEN [s EXCEPT !.out = @ \cup
            {[Msg(w, "rooms_list", NoUserId, Undefined, "")
                EXCEPT !.rooms = [i \in 1..Len(ids) |-> s.rooms[ids[i]]]]}]
    ELSE s

GetRooms(s, w) ==
    IF GetGameRoomsThrows(s)
    THEN SendError(s, w, "Failed to get rooms")
    ELSE GetRooms2(s, w, GetGameRooms(s))

\* a frame that is not JSON, has no string type, or has an unknown type
FrameKinds == {"unparsable", "notype", "unknown"}
\* a switch without the default case: an unknown type is not answered
BadFrameNoDefault(s, w, kind) ==
    IF kind = "unknown"
    THEN s
    ELSE SendError(s, w, IF kind = "unparsable" THEN "Invalid message format"
                                                ELSE "Invalid message type")
BadFrame(s, w, kind) ==
    SendError(s, w, CASE kind = "unparsable" -> "Invalid message format"
                      [] kind = "notype" -> "Invalid message type"
                      [] OTHER -> "Unknown event")

\* ws.on('close'): the first entry of the Map whose ws is the closed one
ClosedEntry(conn, w) ==
    IF \E i \in 1..Len(conn) : conn[i].ws = w
    THEN CHOOSE i \in 1..Len(conn) :
            conn[i].ws = w /\ \A j \in 1..(i - 1) : conn[j].ws # w
    ELSE 0

Close(s0, w) ==
    LET s == [s0 EXCEPT !.ready[w] = "closed"]
        i == ClosedEntry(s.conn, w)
    IN  IF i = 0 THEN s
        ELSE LET player == s.conn[i]
                 a == IF player.roomId # Null
                      THEN BroadcastToRoom(
                               LeaveGameRoom(s, player.roomId, player.userId),
                               player.roomId, "player_left", player.userId,
                               player.userId)
                      ELSE s
                 b == [a EXCEPT !.conn = ConnDelete(@, player.userId)]
             IN  BroadcastToLobby(b, "room_list_updated")

(***************************************************************************)
(* State machine                                                           *)
(***************************************************************************)
Cur == [rooms |-> gameRooms, parts |-> gameParticipants, conn |-> connectedPlayers,
        ready |-> readyState, out |-> {}]

Commit(s) ==
    /\ gameRooms' = s.rooms
    /\ gameParticipants' = s.parts
    /\ connectedPlayers' = s.conn
    /\ readyState' = s.ready
    /\ UNCHANGED <<soloVars, scoreVars, clientVars>>

\* a handler suspended at an await: seg is the segment it resumes with, ids
\* the array get_rooms holds, pref the player object leave_room holds (0: the
\* Map's entry under userId, k > 0: stale[k])
Suspended(type, seg, w, uid, rid, ids, pref) ==
    [type |-> type, seg |-> seg, ws |-> w, userId |-> uid, roomId |-> rid,
     ids |-> ids, pref |-> pref]

\* a first start: FileStorage.loadData finds no data file, nobody is connected
Init ==
    /\ gameRooms = <<>>
    /\ gameParticipants = EmptyBag
    /\ connectedPlayers = <<>>
    /\ readyState = [w \in WS |-> "none"]
    /\ pending = EmptyBag
    /\ stale = <<>>
    /\ users = {}
    /\ soloResults = <<>>
    /\ leaderboard = Returned(<<>>)
    /\ totalScore = <<>>
    /\ scoreRequests = EmptyBag
    /\ opentdbToken = FALSE
    /\ inFlight = <<>>
    /\ cache = <<>>
    /\ promises = <<>>

\* rows that exist or that a suspended create_room is about to insert
RowsInUse ==
    BagCardinality(gameParticipants)
    + BagCardinality([r \in {x \in BagToSet(pending) :
                                x.type = "create_room" /\ x.seg = 2} |-> pending[r]])

HoldsEntry(r, uid) == r.type = "leave_room" /\ r.pref = 0 /\ r.userId = uid

\* the Map's entry under uid is about to be replaced or deleted: suspended
\* handlers that hold it keep the old object
Detach(uid) ==
    IF /\ ConnHas(connectedPlayers, uid)
       /\ \E r \in BagToSet(pending) : HoldsEntry(r, uid)
    THEN /\ stale' = Append(stale, connectedPlayers[ConnIndex(connectedPlayers, uid)])
         /\ pending' = BagOfAll(
                LAMBDA r : IF HoldsEntry(r, uid)
                           THEN [r EXCEPT !.pref = Len(stale) + 1] ELSE r,
                pending)
    ELSE UNCHANGED <<pending, stale>>

\* wss.on('connection')
ConnectEv(w) ==
    /\ readyState[w] = "none"
    /\ readyState' = [readyState EXCEPT ![w] = "open"]
    /\ UNCHANGED <<gameRooms, gameParticipants, connectedPlayers, pending, stale>>
    /\ UNCHANGED <<soloVars, scoreVars, clientVars>>

JoinLobbyEv(w, uid) ==
    /\ readyState[w] = "open"
    /\ Commit(JoinLobby(Cur, w, uid))
    /\ IF uid = NoUserId THEN UNCHANGED <<pending, stale>> ELSE Detach(uid)

CreateRoomEv(w, uid, mp, tick) ==
    /\ readyState[w] = "open"
    /\ CreateRoomThrows(uid) \/ (Len(gameRooms) < MaxRooms /\ RowsInUse < MaxRows)
    /\ Commit(CreateRoom(Cur, w, uid, mp, tick))
    /\ UNCHANGED <<pending, stale>>

JoinRoomEv(w, uid, rid) ==
    /\ readyState[w] = "open"
    /\ JoinRoomThrows(uid, rid) \/ RowsInUse < MaxRows
    /\ Commit(JoinRoom(Cur, w, uid, rid))
    /\ UNCHANGED <<pending, stale>>

LeaveRoomEv(w, uid) ==
    /\ readyState[w] = "open"
    /\ Commit(LeaveRoom(Cur, w, uid))
    /\ UNCHANGED <<pending, stale>>

GetRoomsEv(w) ==
    /\ readyState[w] = "open"
    /\ Commit(GetRooms(Cur, w))
    /\ UNCHANGED <<pending, stale>>

BadFrameEv(w, kind) ==
    /\ readyState[w] = "open"
    /\ Commit(BadFrame(Cur, w, kind))
    /\ UNCHANGED <<pending, stale>>

CloseEv(w) ==
    /\ readyState[w] = "open"
    /\ Commit(Close(Cur, w))
    /\ IF ClosedEntry(connectedPlayers, w) = 0
       THEN UNCHANGED <<pending, stale>>
       ELSE Detach(connectedPlayers[ClosedEntry(connectedPlayers, w)].userId)

RoomInputs == (1..Len(gameRooms)) \cup {GhostRoom, Null}

\* every event is handled to completion before the next one is dispatched
Next ==
    \/ \E w \in WS : ConnectEv(w)
    \/ \E w \in WS, uid \in UserInputs : JoinLobbyEv(w, uid)
    \/ \E w \in WS, uid \in UserInputs, mp \in MaxPlayersInputs, tick \in {0, 1} :
          CreateRoomEv(w, uid, mp, tick)
    \/ \E w \in WS, uid \in UserInputs, rid \in RoomInputs : JoinRoomEv(w, uid, rid)
    \/ \E w \in WS, uid \in UserInputs : LeaveRoomEv(w, uid)
    \/ \E w \in WS : GetRoomsEv(w)
    \/ \E w \in WS, kind \in FrameKinds : BadFrameEv(w, kind)
    \/ \E w \in WS : CloseEv(w)

Spec == Init /\ [][Next]_vars

(***************************************************************************)
(* The same handlers with their awaits as scheduling points: a handler     *)
(* runs up to its next await in one step, and any other event, or any      *)
(* other suspended handler, may run before it resumes.  This is what the   *)
(* Promise-returning IStorage interface allows; which of these schedules   *)
(* the file-backed storage and the ws library actually produce is not      *)
(* decided here.                                                           *)
(***************************************************************************)
CanSuspend(w) ==
    /\ readyState[w] = "open"
    /\ BagCardinality(pending) < MaxInFlight

Suspend(r) == pending' = pending (+) SetToBag({r})

\* the handler r moves on to its next segment, or finishes
Advance(r, last) ==
    pending' = IF last THEN pending (-) SetToBag({r})
               ELSE (pending (-) SetToBag({r})) (+) SetToBag({[r EXCEPT !.seg = @ + 1]})

CreateRoomStart(w, uid, mp, tick) ==
    /\ CanSuspend(w)
    /\ ~CreateRoomThrows(uid)
    /\ Len(gameRooms) < MaxRooms /\ RowsInUse < MaxRows
    /\ Commit(CreateRoom1(Cur, w, uid, mp, tick))
    /\ Suspend(Suspended("create_room", 2, w, uid, Len(gameRooms) + 1, <<>>, 0))
    /\ UNCHANGED stale

CreateRoomResume(r) ==
    /\ r.type = "create_room"
    /\ Commit(IF r.seg = 2 THEN CreateRoom2(Cur, r.ws, r.userId, r.roomId)
                           ELSE CreateRoom3(Cur, r.ws, r.userId, r.roomId))
    /\ Advance(r, r.seg = 3)
    /\ UNCHANGED stale

JoinRoomStart(w, uid, rid) ==
    /\ CanSuspend(w)
    /\ ~JoinRoomThrows(uid, rid)
    /\ RowsInUse < MaxRows
    /\ Commit(JoinRoom1(Cur, w, uid, rid))
    /\ Suspend(Suspended("join_room", 2, w, uid, rid, <<>>, 0))
    /\ UNCHANGED stale

JoinRoomResume(r) ==
    /\ r.type = "join_room"
    /\ Commit(IF r.seg = 2 THEN JoinRoom2(Cur, r.ws, r.userId, r.roomId)
                           ELSE JoinRoom3(Cur, r.ws, r.userId, r.roomId))
    /\ Advance(r, r.seg = 3)
    /\ UNCHANGED stale

LeaveRoomStart(w, uid) ==
    /\ CanSuspend(w)
    /\ LeaveRoomActs(Cur, uid)
    /\ Commit(LeaveRoom1(Cur, w, uid))
    /\ Suspend(Suspended("leave_room", 2, w, uid, Null, <<>>, 0))
    /\ UNCHANGED stale

\* player.roomId as the suspended leave_room r reads it
HeldRoomId(r) ==
    IF r.pref = 0
    THEN connectedPlayers[ConnIndex(connectedPlayers, r.userId)].roomId
    ELSE stale[r.pref].roomId

LeaveRoomResume(r) ==
    /\ r.type = "leave_room"
    /\ Commit(LeaveRoom2(Cur, r.ws, r.userId, HeldRoomId(r), r.pref = 0))
    /\ LET rest == pending (-) SetToBag({r})
           k == r.pref
       IN  IF k = 0
           THEN pending' = rest /\ UNCHANGED stale
           ELSE IF \E x \in BagToSet(rest) : x.pref = k
                THEN /\ pending' = rest
                     /\ stale' = [stale EXCEPT ![k].roomId = Null]
                ELSE \* nothing holds the object any more
                     /\ pending' = BagOfAll(
                            LAMBDA x : IF x.pref > k THEN [x EXCEPT !.pref = @ - 1] ELSE x,
                            rest)
                     /\ stale' = [j \in 1..(Len(stale) - 1) |->
                                     IF j < k THEN stale[j] ELSE stale[j + 1]]

GetRoomsStart(w) ==
    /\ CanSuspend(w)
    /\ Suspend(Suspended("get_rooms", 2, w, NoUserId, Null, GetGameRooms(Cur), 0))
    /\ UNCHANGED <<gameRooms, gameParticipants, connectedPlayers, readyState, stale>>
    /\ UNCHANGED <<soloVars, scoreVars, clientVars>>

GetRoomsResume(r) ==
    /\ r.type = "get_rooms"
    /\ Commit(GetRooms2(Cur, r.ws, r.ids))
    /\ Advance(r, TRUE)
    /\ UNCHANGED stale

NextAsync ==
    \/ Next
    \/ \E w \in WS, uid \in Users, mp \in MaxPlayersInputs, tick \in {0, 1} :
          CreateRoomStart(w, uid, mp, tick)
    \/ \E r \in BagToSet(pending) : CreateRoomResume(r)
    \/ \E w \in WS, uid \in Users, rid \in RoomInputs : JoinRoomStart(w, uid, rid)
    \/ \E r \in BagToSet(pending) : JoinRoomResume(r)
    \/ \E w \in WS, uid \in Users : LeaveRoomStart(w, uid)
    \/ \E r \in BagToSet(pending) : LeaveRoomResume(r)
    \/ \E w \in WS : GetRoomsStart(w)
    \/ \E r \in BagToSet(pending) : GetRoomsResume(r)

SpecAsync == Init /\ [][NextAsync]_vars

(***************************************************************************)
(* The solo results of the storage: users are created, results are saved,  *)
(* the server restarts and reads its data file back, the leaderboard is    *)
(* asked for.                                                              *)
(***************************************************************************)
\* createUser: a fresh id
CreateUserEv(uid) ==
    /\ uid \notin users
    /\ users' = users \cup {uid}
    /\ totalScore' = [u \in users \cup {uid} |-> IF u = uid THEN 0 ELSE totalScore[u]]
    /\ UNCHANGED <<soloResults, leaderboard>>
    /\ UNCHANGED <<roomVars, scoreRequests, clientVars>>

\* new Date() at the time of the save: not before the last saved result
ClockNow ==
    LET last == IF soloResults = <<>> THEN 1
                ELSE soloResults[Len(soloResults)].createdAt.time
    IN  last..MaxTime

AddSoloResultEv(uid, score, t) ==
    /\ Len(soloResults) < MaxResults
    /\ uid \in users \cup {GhostUser}
    /\ t \in ClockNow
    /\ soloResults' = AddSoloResult(soloResults, uid, score, t)
    /\ UNCHANGED <<users, leaderboard>>
    /\ UNCHANGED <<roomVars, scoreVars, clientVars>>

\* a restart: every save wrote the whole file, so loadData reads back what
\* the storage held
LoadDataEv ==
    /\ users # {} \/ soloResults # <<>>
    /\ soloResults' = LoadData(soloResults)
    /\ UNCHANGED <<users, leaderboard>>
    /\ UNCHANGED <<roomVars, scoreVars, clientVars>>

GetSoloLeaderboardEv(limit, offset) ==
    /\ leaderboard' = GetSoloLeaderboard(users, soloResults, limit, offset)
    /\ UNCHANGED <<users, soloResults>>
    /\ UNCHANGED <<roomVars, scoreVars, clientVars>>

NextSolo ==
    \/ \E uid \in Users : CreateUserEv(uid)
    \/ \E uid \in Users \cup {GhostUser}, score \in Scores, t \in 1..MaxTime :
          AddSoloResultEv(uid, score, t)
    \/ LoadDataEv
    \/ \E limit \in Limits, offset \in Offsets : GetSoloLeaderboardEv(limit, offset)

SpecSolo == Init /\ [][NextSolo]_vars

(***************************************************************************)
(* The room list across restarts of the server: rooms are created, the     *)
(* process is restarted and FileStorage reads its data file back, clients  *)
(* connect again and ask for the list.                                     *)
(***************************************************************************)
MaxStoredRooms == 2   \* rooms in the data file

CreateStoredRoomEv(w, uid, mp, tick) ==
    /\ readyState[w] = "open"
    /\ Len(gameRooms) < MaxStoredRooms /\ RowsInUse < MaxRows
    /\ Commit(CreateRoom(Cur, w, uid, mp, tick))
    /\ UNCHANGED <<pending, stale>>

\* the process ends and starts again: the registry and the transports are
\* gone, the rooms and rows come back from the file every save wrote
RestartEv ==
    /\ gameRooms # <<>>
    /\ gameRooms' = LoadRooms(gameRooms)
    /\ connectedPlayers' = <<>>
    /\ readyState' = [w \in WS |-> "none"]
    /\ pending' = EmptyBag
    /\ stale' = <<>>
    /\ UNCHANGED gameParticipants
    /\ UNCHANGED <<soloVars, scoreVars, clientVars>>

NextRestart ==
    \/ \E w \in WS : ConnectEv(w)
    \/ \E w \in WS, uid \in Users : JoinLobbyEv(w, uid)
    \/ \E w \in WS, uid \in Users, mp \in MaxPlayersInputs, tick \in {0, 1} :
          CreateStoredRoomEv(w, uid, mp, tick)
    \/ \E w \in WS : GetRoomsEv(w)
    \/ \E w \in WS : CloseEv(w)
    \/ RestartEv

SpecRestart == Init /\ [][NextRestart]_vars

(***************************************************************************)
(* Properties.  Those about one event quantify over the event's inputs and *)
(* apply the handler to the current state, so they speak about every step  *)
(* the handler can take from a reachable state.                            *)
(***************************************************************************)
RoomIds == 1..Len(gameRooms)
Open(w) == readyState[w] = "open"
Entries(conn) == {conn[i] : i \in 1..Len(conn)}
Got(s, w, type) == \E m \in s.out : m.to = w /\ m.type = type

\* C1: after every sequence of create_room, join_room, leave_room and
\* disconnect events, each handled to completion, every room's currentPlayers
\* equals the number of Participant rows of that room.
C1_CounterEqualsRows ==
    \A rid \in RoomIds :
        gameRooms[rid].currentPlayers = RowsOf(gameParticipants, rid)

\* C2: every room has currentPlayers <= maxPlayers, and a join_room that would
\* take the counter above maxPlayers leaves the counter as it is.
C2_NeverAboveMaxPlayers ==
    /\ \A rid \in RoomIds : gameRooms[rid].currentPlayers <= gameRooms[rid].maxPlayers
    /\ \A w \in WS, uid \in Users, rid \in RoomIds :
          (Open(w) /\ gameRooms[rid].currentPlayers >= gameRooms[rid].maxPlayers)
          => JoinRoom(Cur, w, uid, rid).rooms[rid].currentPlayers
                = gameRooms[rid].currentPlayers

\* C3: a join_room for a room whose currentPlayers equals maxPlayers is
\* answered with error and not room_joined, and leaves the room, the
\* Participant rows and the registry unchanged.
C3_JoinFullRoomRejected ==
    \A w \in WS, uid \in Users, rid \in RoomIds :
        (Open(w) /\ gameRooms[rid].currentPlayers = gameRooms[rid].maxPlayers)
        => LET res == JoinRoom(Cur, w, uid, rid)
           IN  /\ Got(res, w, "error")
               /\ ~Got(res, w, "room_joined")
               /\ res.rooms = gameRooms
               /\ res.parts = gameParticipants
               /\ res.conn = connectedPlayers

\* C4: there is at most one Participant row per (roomId, userId).
C4_OneRowPerRoomAndUser ==
    \A row \in BagToSet(gameParticipants) : CopiesIn(row, gameParticipants) <= 1

\* C5: a Participant row (R, u) exists exactly when some registered
\* connection has userId u and currentRoomId R.
C5_RowsMatchRegistry ==
    \A rid \in RoomIds \cup {GhostRoom}, uid \in Users :
        BagIn(Row(rid, uid), gameParticipants)
        <=> \E p \in Entries(connectedPlayers) : p.userId = uid /\ p.roomId = rid

\* C6: for a connection that is in a room, closing its transport leaves the
\* same rooms and Participant rows as its leave_room followed by the close.
C6_DisconnectEqualsLeave ==
    \A p \in Entries(connectedPlayers) :
        (Open(p.ws) /\ p.roomId # Null)
        => LET closed == Close(Cur, p.ws)
               left == Close(LeaveRoom(Cur, p.ws, p.userId), p.ws)
           IN  closed.rooms = left.rooms /\ closed.parts = left.parts

\* the rest of the suspended create_room or join_room r, run from s
Finish(s, r) ==
    IF r.type = "create_room"
    THEN CreateRoom3(IF r.seg = 2 THEN CreateRoom2(s, r.ws, r.userId, r.roomId) ELSE s,
                     r.ws, r.userId, r.roomId)
    ELSE JoinRoom3(IF r.seg = 2 THEN JoinRoom2(s, r.ws, r.userId, r.roomId) ELSE s,
                   r.ws, r.userId, r.roomId)

\* the rows of (r.roomId, r.userId) that the suspended handler r has inserted
Inserted(r) == IF r.type = "create_room" /\ r.seg = 2 THEN 0 ELSE 1

Requested == {JsNum(k) : k \in {1, 2, 4, 16, 17}}
Clamped(v) == IF v.n < 2 THEN 2 ELSE IF v.n > 16 THEN 16 ELSE v.n

\* C8: create_room from a registered lobby connection: the room in
\* room_created and the stored room have currentPlayers 1, status waiting and
\* the requested maxPlayers clamped to [2, 16], and the creator is the only
\* Participant of the room.
C8_CreatedRoomHasOnePlayer ==
    \A w \in WS, uid \in Users, mp \in Requested :
        ( /\ Open(w)
          /\ Player(w, uid, Null) \in Entries(connectedPlayers) )
        => LET res == CreateRoom(Cur, w, uid, mp, 1)
               rid == Len(gameRooms) + 1
               ok(room) == /\ room.currentPlayers = 1
                           /\ room.status = "waiting"
                           /\ room.maxPlayers = Clamped(mp)
           IN  /\ \E m \in res.out : m.to = w /\ m.type = "room_created" /\ ok(m.room)
               /\ ok(res.rooms[rid])
               /\ RowsOf(res.parts, rid) = 1
               /\ BagIn(Row(rid, uid), res.parts)

\* C9: when a second transport registers a userId that a live connection
\* already uses, the first connection's entry and currentRoomId stay, and
\* the second gets an entry of its own.
C9_SameUserIndependentEntries ==
    \A p \in Entries(connectedPlayers), w \in WS :
        (Open(p.ws) /\ Open(w) /\ w # p.ws)
        => LET res == JoinLobby(Cur, w, p.userId)
           IN  /\ p \in Entries(res.conn)
               /\ Player(w, p.userId, Null) \in Entries(res.conn)

\* C10: a join_room naming a room that does not exist, or a room that is not
\* waiting, is answered with error and inserts no row, changes no counter and
\* leaves the sender's currentRoomId as it is.
C10_JoinUnknownRoomRejected ==
    \A w \in WS, uid \in Users, rid \in RoomIds \cup {GhostRoom} :
        (Open(w) /\ (~RoomExists(gameRooms, rid) \/ gameRooms[rid].status # "waiting"))
        => LET res == JoinRoom(Cur, w, uid, rid)
           IN  /\ Got(res, w, "error")
               /\ res.parts = gameParticipants
               /\ res.rooms = gameRooms
               /\ res.conn = connectedPlayers

\* the handler result s changed neither the repository nor the registry
SameState(s) ==
    /\ s.rooms = gameRooms
    /\ s.parts = gameParticipants
    /\ s.conn = connectedPlayers
    /\ s.ready = readyState

\* the handler result s sent one error message to w and nothing else
OnlyAnError(s, w) ==
    /\ Cardinality(s.out) = 1
    /\ \A m \in s.out : m.to = w /\ m.type = "error"

\* C11: a leave_room from a connection whose currentRoomId is null is
\* answered with an error to the sender and changes nothing: no row removed,
\* no counter lowered, no registry entry changed, no broadcast.
C11_LeaveOutsideRoomIsError ==
    \A w \in WS, uid \in Users :
        (Open(w) /\ Player(w, uid, Null) \in Entries(connectedPlayers))
        => LET res == LeaveRoom(Cur, w, uid)
           IN  OnlyAnError(res, w) /\ SameState(res)

\* C12: a join_lobby, create_room, join_room or leave_room whose userId (or,
\* for join_room, roomId) is missing or not a string yields exactly one error
\* message to the sender, no broadcast, and leaves registry and repository
\* unchanged.
C12_MissingFieldIsError ==
    \A w \in WS :
        Open(w)
        => /\ LET res == JoinLobby(Cur, w, NoUserId)
              IN  OnlyAnError(res, w) /\ SameState(res)
           /\ \A mp \in MaxPlayersInputs :
                 LET res == CreateRoom(Cur, w, NoUserId, mp, 1)
                 IN  OnlyAnError(res, w) /\ SameState(res)
           /\ \A uid \in UserInputs, rid \in RoomInputs :
                 JoinRoomThrows(uid, rid)
                 => LET res == JoinRoom(Cur, w, uid, rid)
                    IN  OnlyAnError(res, w) /\ SameState(res)
           /\ LET res == LeaveRoom(Cur, w, NoUserId)
              IN  OnlyAnError(res, w) /\ SameState(res)

\* C13: on a successful join_room the joiner receives room_joined, every
\* other open connection in that room receives player_joined carrying the
\* joiner's userId, the joiner receives no player_joined, and every open
\* lobby connection receives room_list_updated.
C13_JoinNotifications ==
    \A w \in WS, uid \in Users, rid \in RoomIds :
        (/\ Open(w)
         /\ Player(w, uid, Null) \in Entries(connectedPlayers)
         /\ gameRooms[rid].status = "waiting"
         /\ gameRooms[rid].currentPlayers < gameRooms[rid].maxPlayers)
        => LET res == JoinRoom(Cur, w, uid, rid)
           IN  /\ Got(res, w, "room_joined")
               /\ \A p \in Entries(connectedPlayers) :
                     (p.userId # uid /\ p.roomId = rid /\ Open(p.ws))
                     => \E m \in res.out :
                            m.to = p.ws /\ m.type = "player_joined" /\ m.userId = uid
               /\ ~Got(res, w, "player_joined")
               /\ \A p \in Entries(res.conn) :
                     (p.roomId = Null /\ Open(p.ws)) => Got(res, p.ws, "room_list_updated")

\* C14: when the transport of a connection that is in room R closes, R's
\* currentPlayers goes down by exactly 1, that user's row for R is removed,
\* every remaining open connection in R receives player_left carrying the
\* departed userId, and every open lobby connection receives
\* room_list_updated.
C14_CloseLeavesRoom ==
    \A p \in Entries(connectedPlayers) :
        (Open(p.ws) /\ p.roomId \in RoomIds)
        => LET res == Close(Cur, p.ws)
               R == p.roomId
           IN  /\ res.rooms[R].currentPlayers = gameRooms[R].currentPlayers - 1
               /\ ~BagIn(Row(R, p.userId), res.parts)
               /\ \A q \in Entries(res.conn) :
                     (q.roomId = R /\ res.ready[q.ws] = "open")
                     => \E m \in res.out :
                            m.to = q.ws /\ m.type = "player_left" /\ m.userId = p.userId
               /\ \A q \in Entries(res.conn) :
                     (q.roomId = Null /\ res.ready[q.ws] = "open")
                     => Got(res, q.ws, "room_list_updated")

\* C15: when the creator of a room, being its only remaining member, sends
\* leave_room, the room's currentPlayers becomes 0 and the room is not
\* deleted: get_rooms still returns it, with status waiting.
C15_EmptyRoomStaysListed ==
    \A p \in Entries(connectedPlayers) :
        (/\ Open(p.ws)
         /\ p.roomId \in RoomIds
         /\ gameRooms[p.roomId].hostId = p.userId
         /\ CopiesIn(Row(p.roomId, p.userId), gameParticipants) = 1
         /\ RowsOf(gameParticipants, p.roomId) = 1)
        => LET res == LeaveRoom(Cur, p.ws, p.userId)
               R == p.roomId
           IN  /\ RoomExists(res.rooms, R)
               /\ res.rooms[R].currentPlayers = 0
               /\ \E m \in GetRooms(res, p.ws).out :
                     /\ m.type = "rooms_list"
                     /\ \E i \in 1..Len(m.rooms) :
                           m.rooms[i].id = R /\ m.rooms[i].status = "waiting"

\* C16: every room's currentPlayers is >= 0 in every reachable state, also
\* after a leave or a disconnect is applied to a (room, user) pair that has no
\* row, or is applied twice; a removal that finds no row lowers no counter.
C16_CounterNeverNegative ==
    LET NonNegative(s) == \A r \in 1..Len(s.rooms) : s.rooms[r].currentPlayers >= 0
    IN  /\ NonNegative(Cur)
        /\ \A rid \in RoomIds \cup {GhostRoom}, uid \in Users :
              LET once == LeaveGameRoom(Cur, rid, uid)
                  twice == LeaveGameRoom(once, rid, uid)
              IN  /\ ~BagIn(Row(rid, uid), gameParticipants) => once.rooms = gameRooms
                  /\ ~BagIn(Row(rid, uid), once.parts) => twice.rooms = once.rooms
                  /\ NonNegative(once) /\ NonNegative(twice)
        /\ \A w \in WS, uid \in Users :
              /\ NonNegative(LeaveRoom(LeaveRoom(Cur, w, uid), w, uid))
              /\ NonNegative(Close(Close(Cur, w), w))
              /\ NonNegative(Close(LeaveRoom(Cur, w, uid), w))

\* the creator has left the room: a further removal for that pair finds no row
C16_Witness ==
    \E rid \in RoomIds :
        /\ RowsOf(gameParticipants, rid) = 0
        /\ ~BagIn(Row(rid, gameRooms[rid].hostId), gameParticipants)
        /\ LeaveGameRoom(Cur, rid, gameRooms[rid].hostId).rooms = gameRooms

\* C17: a frame that is not parsable JSON, or whose type is missing, not a
\* string or not one of the five recognised types, produces an error message
\* to the sender only, leaves the sender's registry entry and all room state
\* unchanged, and neither closes nor unregisters the connection.
C17_BadFrameOnlyErrors ==
    \A w \in WS, kind \in FrameKinds :
        Open(w)
        => LET res == BadFrame(Cur, w, kind)
           IN  /\ OnlyAnError(res, w)
               /\ res.conn = connectedPlayers
               /\ res.rooms = gameRooms
               /\ res.parts = gameParticipants
               /\ res.ready = readyState
               /\ res.ready[w] = "open"

\* a connection that is in a room sends a frame of an unknown type and is
\* answered with an error
C17_Witness ==
    \E p \in Entries(connectedPlayers) :
        /\ Open(p.ws)
        /\ p.roomId \in RoomIds
        /\ BagIn(Row(p.roomId, p.userId), gameParticipants)
        /\ Got(BadFrame(Cur, p.ws, "unknown"), p.ws, "error")

\* C19: create_room and join_room take effect only when the sender's userId
\* has a registry entry whose currentRoomId is null: for an unregistered
\* userId or a connection already in a room they create no room, add no row
\* and never move a connection directly from one room to another.
C19_RoomEntryOnlyFromLobby ==
    LET InLobby(uid) == /\ ConnHas(connectedPlayers, uid)
                        /\ connectedPlayers[ConnIndex(connectedPlayers, uid)].roomId = Null
        NoEffect(res) ==
            /\ Len(res.rooms) = Len(gameRooms)
            /\ res.parts = gameParticipants
            /\ \A p \in Entries(connectedPlayers), q \in Entries(res.conn) :
                  (p.userId = q.userId /\ p.roomId # Null /\ q.roomId # Null)
                  => q.roomId = p.roomId
    IN  \A w \in WS, uid \in Users :
            (Open(w) /\ ~InLobby(uid))
            => /\ \A mp \in MaxPlayersInputs : NoEffect(CreateRoom(Cur, w, uid, mp, 1))
               /\ \A rid \in RoomIds \cup {GhostRoom} : NoEffect(JoinRoom(Cur, w, uid, rid))

\* C20: once the close of a transport has been handled, the registry holds no
\* entry whose transport is the closed one, whatever messages came before.
C20_NoEntryForClosedTransport ==
    \A p \in Entries(connectedPlayers) : readyState[p.ws] # "closed"

\* C18: getSoloLeaderboard returns at most one entry per user, that entry
\* being the user's highest-scoring result (the earliest-created one among
\* equal scores), the entries ordered by score descending and, among equal
\* scores, by creation time ascending; results of users that do not exist
\* are omitted.
C18_LeaderboardBestPerUser ==
    \A limit \in Limits, offset \in Offsets :
        LET res == GetSoloLeaderboard(users, soloResults, limit, offset)
            rows == res.rows
            Results == {soloResults[i] : i \in 1..Len(soloResults)}
        IN  /\ ~res.threw
            /\ \A i, j \in 1..Len(rows) : rows[i].id = rows[j].id => i = j
            /\ \A i \in 1..Len(rows) :
                  /\ rows[i].id \in users
                  /\ \E r \in Results :
                        /\ r.userId = rows[i].id
                        /\ r.score = rows[i].score
                        /\ r.createdAt = rows[i].timestamp
                  /\ \A r \in Results :
                        r.userId = rows[i].id
                        => \/ r.score < rows[i].score
                           \/ /\ r.score = rows[i].score
                              /\ rows[i].timestamp.time <= r.createdAt.time
            /\ \A i, j \in 1..Len(rows) :
                  i < j => \/ rows[i].score > rows[j].score
                           \/ /\ rows[i].score = rows[j].score
                              /\ rows[i].timestamp.time <= rows[j].timestamp.time

\* C21: a room broadcast for room R is delivered to exactly the registered
\* connections whose currentRoomId is R, whose transport is open and which
\* are not the excluded sender: never to a connection in another room or in
\* the lobby, never to a closed transport, and a closed recipient does not
\* keep the others from receiving it.
C21_RoomBroadcastRecipients ==
    \A sender \in Entries(connectedPlayers), R \in RoomIds :
        LET res == BroadcastToRoom(Cur, R, "player_left", sender.userId, sender.userId)
            recipients == {m.to : m \in res.out}
        IN  recipients = {p.ws : p \in {q \in Entries(connectedPlayers) :
                                            /\ q.roomId = R
                                            /\ Open(q.ws)
                                            /\ q.ws # sender.ws}}

\* C22: on a successful create_room every open connection that is in the
\* lobby at that moment receives room_list_updated, the creator receives
\* room_created and no room_list_updated for its own creation, and the
\* connections that are in a room receive neither.
C22_CreateNotifications ==
    \A w \in WS, uid \in Users, mp \in MaxPlayersInputs :
        (Open(w) /\ Player(w, uid, Null) \in Entries(connectedPlayers))
        => LET res == CreateRoom(Cur, w, uid, mp, 1)
           IN  /\ Got(res, w, "room_created")
               /\ ~Got(res, w, "room_list_updated")
               /\ \A p \in Entries(connectedPlayers) :
                     (Open(p.ws) /\ p.userId # uid)
                     => IF p.roomId = Null
                        THEN Got(res, p.ws, "room_list_updated")
                        ELSE /\ ~Got(res, p.ws, "room_list_updated")
                             /\ ~Got(res, p.ws, "room_created")

\* C23: get_rooms, from a connection in any state, replies to the sender only,
\* with rooms_list holding exactly the rooms whose status is waiting, newest
\* creation first; it leaves the registry, the rooms and the rows unchanged
\* and sends no broadcast.
C23_GetRoomsIsPureRead ==
    \A w \in WS :
        Open(w)
        => LET res == GetRooms(Cur, w)
           IN  /\ SameState(res)
               /\ Cardinality(res.out) = 1
               /\ \A m \in res.out :
                     /\ m.to = w
                     /\ m.type = "rooms_list"
                     /\ {m.rooms[i] : i \in 1..Len(m.rooms)}
                           = {gameRooms[r] : r \in {x \in RoomIds :
                                                      gameRooms[x].status = "waiting"}}
                     /\ Len(m.rooms)
                           = Cardinality({x \in RoomIds : gameRooms[x].status = "waiting"})
                     /\ \A i, j \in 1..Len(m.rooms) :
                           i < j => m.rooms[i].createdAt.time >= m.rooms[j].createdAt.time

\* maxPlayers as clients may send it: absent, non-numeric, zero, negative,
\* below 2, in range, 16, above 16
MaxPlayersCases == {JsUndefined, JsText} \cup {JsNum(k) : k \in {-3, 0, 1, 2, 5, 16, 17, 1000}}

\* C24: every room created through create_room has 2 <= maxPlayers <= 16 for
\* every client-supplied maxPlayers (absent, zero, negative, above 16 or
\* non-numeric), and 8 when the value is absent, zero or non-numeric.
C24_MaxPlayersClamped ==
    /\ \A rid \in RoomIds :
          gameRooms[rid].maxPlayers >= 2 /\ gameRooms[rid].maxPlayers <= 16
    /\ \A w \in WS, uid \in Users, mp \in MaxPlayersCases :
          Open(w)
          => LET res == CreateRoom(Cur, w, uid, mp, 1)
                 room == res.rooms[Len(gameRooms) + 1]
             IN  /\ Len(res.rooms) = Len(gameRooms) + 1
                 /\ room.maxPlayers >= 2 /\ room.maxPlayers <= 16
                 /\ (mp \in {JsUndefined, JsText, JsNum(0)}) => room.maxPlayers = 8
                 /\ \A m \in res.out :
                       m.type = "room_created" => m.room.maxPlayers = room.maxPlayers

\* a room was created with maxPlayers 1 requested and is stored with 2
C24_Witness ==
    \E rid \in RoomIds :
        /\ gameRooms[rid].maxPlayers = ClampMaxPlayers(JsNum(1))
        /\ gameRooms[rid].maxPlayers = 2

\* a suspended handler takes its next segment
Resuming ==
    \E r \in BagToSet(pending) :
        CreateRoomResume(r) \/ JoinRoomResume(r) \/ LeaveRoomResume(r) \/ GetRoomsResume(r)

\* C25: each inbound event is handled to completion before the next one
\* starts: while a handler that has already changed the repository waits at
\* an await, no other event changes the registry or the repository; the
\* only step that does is that handler going on.
C25_RunToCompletion ==
    [][(\E r \in BagToSet(pending) : r.type # "get_rooms")
       => (Resuming \/ UNCHANGED <<gameRooms, gameParticipants, connectedPlayers>>)]_vars

\* what saveData writes: the rooms and the rows as JSON
SavedFile(s) == [rooms |-> LoadRooms(s.rooms), parts |-> s.parts]

\* saveData: the whole state is written; when the write fails the error is
\* caught and logged and the file stays as it was
SaveData(s, file, ok) == IF ok THEN SavedFile(s) ELSE file

\* create_room over FileStorage, ok1 and ok2 telling whether the write of
\* createGameRoom and the write of addParticipant succeed
CreateRoomSaving(s, file, w, uid, mp, tick, ok1, ok2) ==
    IF CreateRoomThrows(uid)
    THEN [mem |-> CreateRoom1(s, w, uid, mp, tick), file |-> file]
    ELSE LET rid == Len(s.rooms) + 1
             a == CreateRoom1(s, w, uid, mp, tick)
             f1 == SaveData(a, file, ok1)
             b == CreateRoom2(a, w, uid, rid)
             f2 == SaveData(b, f1, ok2)
         IN  [mem |-> CreateRoom3(b, w, uid, rid), file |-> f2]

\* join_room over FileStorage, ok telling whether the write of
\* addParticipant succeeds
JoinRoomSaving(s, file, w, uid, rid, ok) ==
    IF JoinRoomThrows(uid, rid)
    THEN [mem |-> JoinRoom1(s, w, uid, rid), file |-> file]
    ELSE LET a == JoinRoom1(s, w, uid, rid)
         IN  [mem |-> JoinRoom3(JoinRoom2(a, w, uid, rid), w, uid, rid),
              file |-> SaveData(a, file, ok)]

\* C26: if a repository call fails during create_room or join_room, the
\* sender receives an error and no partial membership state remains: the
\* rooms, the rows and the registry, in memory and in the data file, are as
\* they were before the failed operation.
C26_FailedCallLeavesNothing ==
    LET Nothing(res) ==
            /\ res.mem.rooms = gameRooms
            /\ res.mem.parts = gameParticipants
            /\ res.mem.conn = connectedPlayers
            /\ res.file = SavedFile(Cur)
    IN  \A w \in WS, uid \in Users :
            Open(w)
            => /\ \A mp \in MaxPlayersInputs, ok1, ok2 \in BOOLEAN :
                     ~(ok1 /\ ok2)
                     => LET res == CreateRoomSaving(Cur, SavedFile(Cur), w, uid, mp, 1,
                                                    ok1, ok2)
                        IN  Got(res.mem, w, "error") /\ Nothing(res)
               /\ \A rid \in RoomIds :
                     LET res == JoinRoomSaving(Cur, SavedFile(Cur), w, uid, rid, FALSE)
                     IN  Got(res.mem, w, "error") /\ Nothing(res)

\* C27: a message received on transport T changes only the registry entry
\* bound to T: whatever userId the payload carries, handling it neither
\* changes the currentRoomId of, nor removes a Participant row of, a
\* connection bound to another transport.
C27_OnlyOwnEntryChanges ==
    LET Untouched(res, w) ==
            \A p \in Entries(connectedPlayers) :
                p.ws # w
                => /\ p \in Entries(res.conn)
                   /\ CopiesIn(Row(p.roomId, p.userId), res.parts)
                         >= CopiesIn(Row(p.roomId, p.userId), gameParticipants)
    IN  \A w \in WS, uid \in Users :
            Open(w)
            => /\ Untouched(JoinLobby(Cur, w, uid), w)
               /\ \A mp \in MaxPlayersInputs : Untouched(CreateRoom(Cur, w, uid, mp, 1), w)
               /\ \A rid \in RoomIds \cup {GhostRoom} : Untouched(JoinRoom(Cur, w, uid, rid), w)
               /\ Untouched(LeaveRoom(Cur, w, uid), w)
               /\ Untouched(GetRooms(Cur, w), w)

(***************************************************************************)
(* POST /api/users/update-score.  The handler runs up to an await in one   *)
(* step: the checks and the call of getUser, then the reading of the       *)
(* user's totalScore with the computation and the write (updateUserScore   *)
(* assigns before its promise is awaited), then the response.  Requests    *)
(* of any sessions overlap.                                                *)
(***************************************************************************)
MaxScore == 1000      \* totalScore is followed up to this value
MaxRequests == 2      \* update-score requests in progress at once

PointsChangeInputs == {-1001, -1000, -500, 500, 1000, 1001}

\* a session of a user that the storage no longer holds: sessions may be kept
\* in the database while the users are read from the data file
SessionInputs == Users \cup {GhostUser, NoUserId}

\* z.number().int().min(-1000).max(1000)
ParsePointsChange(pointsChange) == pointsChange \in (-1000)..1000

Response(status, body) == [status |-> status, body |-> body]

\* requireAuth, the parse of the body, the comparison with the session, and
\* the user that getUser returns: the response sent, or "getUser" when the
\* handler goes on with the stored user
UpdateScore1(stored, session, userId, pointsChange) ==
    IF session = NoUserId THEN Response(401, "Unauthorized")
    ELSE IF ~ParsePointsChange(pointsChange) THEN Response(400, "Invalid input")
    ELSE IF session # userId THEN Response(403, "Forbidden")
    ELSE IF userId \notin stored THEN Response(404, "User not found")
    ELSE Response(0, "getUser")

NewScoreUnclamped(currentScore, pointsChange, isSoloMode) ==
    currentScore + pointsChange

NewScore(currentScore, pointsChange, isSoloMode) ==
    IF isSoloMode THEN currentScore + Max(0, pointsChange)
    ELSE Max(0, currentScore + pointsChange)

\* MemStorage.updateUserScore
UpdateUserScore(scores, userId, newScore) ==
    IF userId \in DOMAIN scores THEN [scores EXCEPT ![userId] = newScore] ELSE scores

\* the segment after getUser: currentScore is read from the stored user now
UpdateScore2(scores, r) ==
    UpdateUserScore(scores, r.userId,
                    NewScore(scores[r.userId], r.pointsChange, r.isSoloMode))

ScoreRequest(userId, pointsChange, isSoloMode) ==
    [userId |-> userId, pointsChange |-> pointsChange, isSoloMode |-> isSoloMode]

UpdateScoreStart(session, userId, pointsChange, isSoloMode) ==
    /\ BagCardinality(scoreRequests) < MaxRequests
    /\ scoreRequests' =
          IF UpdateScore1(users, session, userId, pointsChange).status = 0
          THEN scoreRequests (+) SetToBag({ScoreRequest(userId, pointsChange, isSoloMode)})
          ELSE scoreRequests
    /\ UNCHANGED <<totalScore, soloVars, roomVars, clientVars>>

UpdateScoreResume(r) ==
    /\ UpdateScore2(totalScore, r)[r.userId] <= MaxScore
    /\ totalScore' = UpdateScore2(totalScore, r)
    /\ scoreRequests' = scoreRequests (-) SetToBag({r})
    /\ UNCHANGED <<soloVars, roomVars, clientVars>>

NextScore ==
    \/ \E uid \in Users : CreateUserEv(uid)
    \/ \E session \in SessionInputs, userId \in Users \cup {GhostUser},
          pointsChange \in PointsChangeInputs, isSoloMode \in BOOLEAN :
          UpdateScoreStart(session, userId, pointsChange, isSoloMode)
    \/ \E r \in BagToSet(scoreRequests) : UpdateScoreResume(r)

SpecScore == Init /\ [][NextScore]_vars

\* C28: whatever update-score requests were made and however they overlapped,
\* every stored totalScore is at least 0; a request in solo mode that is about
\* to write leaves the user's totalScore at least what it is; and a request of
\* a session for another userId than the session's is answered 403 and goes no
\* further, so that no score changes.
C28_ScoreNeverNegative ==
    /\ \A u \in DOMAIN totalScore : totalScore[u] >= 0
    /\ \A r \in BagToSet(scoreRequests) :
          /\ UpdateScore2(totalScore, r)[r.userId] >= 0
          /\ r.isSoloMode => UpdateScore2(totalScore, r)[r.userId] >= totalScore[r.userId]
    /\ \A session \in SessionInputs \ {NoUserId}, userId \in Users \cup {GhostUser},
          pointsChange \in {p \in PointsChangeInputs : ParsePointsChange(p)} :
          session # userId =>
              UpdateScore1(users, session, userId, pointsChange) = Response(403, "Forbidden")

\* two requests of one user overlap, one of them in solo mode with a negative
\* pointsChange, while the user has points to lose
C28_Witness ==
    \E r \in BagToSet(scoreRequests) :
        /\ r.isSoloMode /\ r.pointsChange < 0
        /\ totalScore[r.userId] > 0
        /\ BagCardinality(scoreRequests) = 2
        /\ \A q \in BagToSet(scoreRequests) : q.userId = r.userId

(***************************************************************************)
(* The client's fetch of trivia questions (client/src/api.ts): the retry   *)
(* loop of fetchWithRetry, the single-flight Map and the short-lived       *)
(* cache.  A step is a call of fetchTriviaQuestions, the outcome of one    *)
(* fetch attempt of a running request, or the passing of CACHE_TTL.        *)
(***************************************************************************)
RETRIES == 4          \* total attempts = 5
NumConfigs == 1       \* quiz configurations asked for
MaxPromises == 2      \* requests fetchTriviaQuestions has created

Configs == 1..NumConfigs

NetworkError == 0     \* fetch rejected: no status
Statuses == {NetworkError, 200, 404, 429, 500}

Ok(status) == status >= 200 /\ status <= 299

shouldRetry(status) ==
    status = 0 \/ status = 429 \/ (status >= 500 /\ status <= 599)

\* one pass of the loop of fetchWithRetry, attempt = 0..RETRIES, with the
\* outcome of its fetch: the response is returned, lastErr is thrown after
\* the loop, or the loop sleeps and goes on with attempt + 1
FetchAttempt(attempt, status) ==
    IF status # NetworkError /\ Ok(status)
    THEN [kind |-> "return", waited |-> FALSE]
    ELSE IF status # NetworkError /\ shouldRetry(status) /\ attempt < RETRIES
    THEN [kind |-> "continue", waited |-> TRUE]           \* await sleep(waitMs); continue
    \* fetch threw, or 'Failed (status)' was thrown inside the try: the catch
    ELSE IF attempt >= RETRIES
    THEN [kind |-> "throw", waited |-> FALSE]             \* break; throw lastErr
    ELSE [kind |-> "continue", waited |-> TRUE]           \* await sleep(wait)

\* what res.json() gives: a response_code with results that are an array or
\* not, or a body that does not parse
Body(code, isArray) == [response_code |-> code, results |-> isArray]
Unparsable == Body(-1, FALSE)
Bodies == {Body(0, TRUE), Body(0, FALSE), Body(1, TRUE), Body(3, TRUE), Body(4, TRUE),
           Unparsable}

\* JSON.stringify({ ...config, token: !!token })
cacheKey(config, token) == <<config, token>>

MapSet(m, k, v) == [x \in DOMAIN m \cup {k} |-> IF x = k THEN v ELSE m[x]]
MapDelete(m, k) == [x \in DOMAIN m \ {k} |-> m[x]]

Client == [opentdbToken |-> opentdbToken, inFlight |-> inFlight, cache |-> cache,
           promises |-> promises]

\* getCached: an entry older than CACHE_TTL is deleted
CacheHit(c, key) == key \in DOMAIN c.cache /\ c.cache[key] = "fresh"
AfterGetCached(c, key) ==
    IF key \in DOMAIN c.cache /\ c.cache[key] = "expired"
    THEN [c EXCEPT !.cache = MapDelete(c.cache, key)] ELSE c

\* the async body up to its first await: the first fetch is on its way
NewPromise(key, token) ==
    [key |-> key, token |-> token, url |-> 1, attempt |-> 0, state |-> "pending"]

\* fetchTriviaQuestions(config); requested is what requestToken gives when
\* no token is held.  result: "cached", or the promise returned
FetchTriviaQuestions(c, config, requested) ==
    LET token == IF c.opentdbToken THEN TRUE ELSE requested
        key == cacheKey(config, token)
        c1 == AfterGetCached([c EXCEPT !.opentdbToken = token], key)
    IN  IF CacheHit(c, key) THEN [c |-> c1, result |-> 0]
        ELSE IF key \in DOMAIN c1.inFlight THEN [c |-> c1, result |-> c1.inFlight[key]]
        ELSE [c |-> [c1 EXCEPT !.promises = Append(@, NewPromise(key, token)),
                               !.inFlight = MapSet(@, key, Len(c1.promises) + 1)],
              result |-> Len(c1.promises) + 1]

Settle(c, p, state, delete) ==
    [c EXCEPT !.promises[p].state = state,
              !.inFlight = IF delete THEN MapDelete(@, c.promises[p].key) ELSE @]

\* the checks after the last fetch, the cache.set and the return
CheckAndDecode(c, p, body) ==
    IF body.response_code # 0 \/ ~body.results
    THEN Settle(c, p, "rejected", TRUE)       \* inFlight.delete(key); throw
    ELSE Settle([c EXCEPT !.cache = MapSet(@, c.promises[p].key, "fresh")],
                p, "fulfilled", TRUE)

\* the body of promise p when its running fetch attempt ends with status,
\* and, for an OK response, res.json() gives body
FetchOutcome(c, p, status, body) ==
    LET q == c.promises[p]
        a == FetchAttempt(q.attempt, status)
    IN  IF a.kind = "continue" THEN [c EXCEPT !.promises[p].attempt = @ + 1]
        ELSE IF q.url = 1
        THEN IF a.kind = "throw" \/ body = Unparsable
             THEN Settle(c, p, "rejected", TRUE)          \* catch (e): inFlight.delete(key)
             ELSE IF body.response_code \in {3, 4} /\ q.token
             THEN [c EXCEPT !.opentdbToken = FALSE,        \* resetToken; second fetch
                            !.promises[p].url = 2, !.promises[p].attempt = 0]
             ELSE CheckAndDecode(c, p, body)
        ELSE IF a.kind = "throw" \/ body = Unparsable
             THEN Settle(c, p, "rejected", FALSE)         \* nothing catches
             ELSE CheckAndDecode(c, p, body)

CommitClient(c) ==
    /\ opentdbToken' = c.opentdbToken
    /\ inFlight' = c.inFlight
    /\ cache' = c.cache
    /\ promises' = c.promises
    /\ UNCHANGED <<roomVars, soloVars, scoreVars>>

FetchTriviaQuestionsEv(config, requested) ==
    LET r == FetchTriviaQuestions(Client, config, requested)
    IN  /\ Len(r.c.promises) <= MaxPromises
        /\ CommitClient(r.c)

FetchOutcomeEv(p, status, body) ==
    /\ p \in 1..Len(promises)
    /\ promises[p].state = "pending"
    /\ CommitClient(FetchOutcome(Client, p, status, body))

\* more than CACHE_TTL passes since the entry was made
CacheAgeEv(key) ==
    /\ key \in DOMAIN cache /\ cache[key] = "fresh"
    /\ CommitClient([Client EXCEPT !.cache[key] = "expired"])

NextClient ==
    \/ \E config \in Configs, requested \in BOOLEAN : FetchTriviaQuestionsEv(config, requested)
    \/ \E p \in 1..MaxPromises, status \in Statuses, body \in Bodies :
          FetchOutcomeEv(p, status, body)
    \/ \E config \in Configs, token \in BOOLEAN : CacheAgeEv(cacheKey(config, token))

SpecClient == Init /\ [][NextClient]_vars

\* C29: a key is in inFlight only while its request is pending, so that a call
\* of fetchTriviaQuestions never hands out a promise that is already settled:
\* it gives cached data, the pending request of its key, or a fresh request.
C29_InFlightOnlyWhilePending ==
    /\ \A key \in DOMAIN inFlight : promises[inFlight[key]].state = "pending"
    /\ \A config \in Configs, requested \in BOOLEAN :
          LET r == FetchTriviaQuestions(Client, config, requested)
          IN  r.result # 0 => r.c.promises[r.result].state = "pending"

\* C30: a pass of the loop of fetchWithRetry goes on to another attempt only
\* below 5 attempts and only after a network error, a 429 or a 5xx; a non-OK
\* response with another status makes it throw at once, without a wait.
C30_RetryOnlyWhenRetryable ==
    \A p \in 1..Len(promises), status \in Statuses :
        LET a == FetchAttempt(promises[p].attempt, status)
        IN  /\ promises[p].attempt <= RETRIES
            /\ a.kind = "continue" => promises[p].attempt < RETRIES /\ shouldRetry(status)
            /\ (status # NetworkError /\ ~Ok(status) /\ ~shouldRetry(status))
                  => a = [kind |-> "throw", waited |-> FALSE]

====
